---- MODULE Spec2Model ----
(***************************************************************************)
(* A model of download_drhp.py: the pipeline of main() (load_state, the    *)
(* listing request, the selection of candidate links, get_drive, the       *)
(* download/upload loop, save_state) run several times in succession       *)
(* against a state file, a listing page and a Drive folder.                *)
(*                                                                         *)
(* Text is a sequence of one-character strings, so that lower(), endswith  *)
(* and `in` are computed on the characters as Python computes them.        *)
(***************************************************************************)
EXTENDS Integers, Sequences, FiniteSets, TLC

\* ------------------------------------------------------------- bounds

\* Longest listing page (number of hyperlinks) of the pipeline specification.
MaxLinks == 3

\* Longest listing page of the link-selection specification.
MaxSelLinks == 2

\* Number of successive runs of main().
MaxRuns == 2

\* ------------------------------------------------------------- text

UpperCs == <<"A", "B", "C", "D", "E", "F", "G", "H", "I", "J", "K", "L", "M",
             "N", "O", "P", "Q", "R", "S", "T", "U", "V", "W", "X", "Y", "Z">>

LowerCs == <<"a", "b", "c", "d", "e", "f", "g", "h", "i", "j", "k", "l", "m",
             "n", "o", "p", "q", "r", "s", "t", "u", "v", "w", "x", "y", "z">>

\* str.lower() on one ASCII character.
LowerChar(c) ==
    IF \E k \in 1..26 : UpperCs[k] = c
    THEN LowerCs[CHOOSE k \in 1..26 : UpperCs[k] = c]
    ELSE c

\* str.lower()
Lower(s) == [k \in 1..Len(s) |-> LowerChar(s[k])]

\* str.endswith(suf)
EndsWith(s, suf) ==
    /\ Len(s) >= Len(suf)
    /\ SubSeq(s, Len(s) - Len(suf) + 1, Len(s)) = suf

\* str.startswith(pre)
StartsWith(s, pre) ==
    /\ Len(s) >= Len(pre)
    /\ SubSeq(s, 1, Len(pre)) = pre

\* `sub in s`
Contains(s, sub) ==
    \E k \in 0..(Len(s) - Len(sub)) : SubSeq(s, k + 1, k + Len(sub)) = sub

\* ------------------------------------------------------------- configuration

SEBI_URL ==
    <<"h", "t", "t", "p", "s", ":", "/", "/", "w", "w", "w", ".", "s", "e", "b",
      "i", ".", "g", "o", "v", ".", "i", "n", "/", "f", "i", "l", "i", "n", "g",
      "s", "/", "p", "u", "b", "l", "i", "c", "-", "i", "s", "s", "u", "e", "s",
      ".", "h", "t", "m", "l">>

KEYWORDS ==
    { <<"d", "r", "a", "f", "t">>,
      <<"d", "r", "h", "p">>,
      <<"r", "e", "d", "-", "h", "e", "r", "r", "i", "n", "g">>,
      <<"r", "e", "d", " ", "h", "e", "r", "r", "i", "n", "g">>,
      <<"o", "f", "f", "e", "r", " ", "d", "o", "c", "u", "m", "e", "n", "t">> }

\* ------------------------------------------------------------- link selection

\* is_pdf_link as a bug would have it: the suffix test on the text as written.
is_pdf_link_case_sensitive(href) ==
    /\ href # <<>>
    /\ \/ EndsWith(href, <<".", "p", "d", "f">>)
       \/ Contains(href, <<".", "p", "d", "f", "?">>)

is_pdf_link(href) ==
    /\ href # <<>>
    /\ \/ EndsWith(Lower(href), <<".", "p", "d", "f">>)
       \/ Contains(Lower(href), <<".", "p", "d", "f", "?">>)

likely_drhp_text(text) ==
    /\ text # <<>>
    /\ \E k \in KEYWORDS : Contains(Lower(text), k)

\* The positions of "/" in s.
Slashes(s) == {k \in 1..Len(s) : s[k] = "/"}

Max(S) == CHOOSE m \in S : \A n \in S : n <= m

Min(S) == CHOOSE m \in S : \A n \in S : m <= n

\* Whether href opens with the scheme of an absolute http(s) URL.
HasScheme(href) ==
    \/ StartsWith(Lower(href), <<"h", "t", "t", "p", ":", "/", "/">>)
    \/ StartsWith(Lower(href), <<"h", "t", "t", "p", "s", ":", "/", "/">>)

\* base up to its host: scheme://host
Origin(base) == SubSeq(base, 1, Min({k \in Slashes(base) : k > 8}) - 1)

\* base up to and including the last "/" of its path.
Directory(base) == SubSeq(base, 1, Max(Slashes(base)))

\* urllib.parse.urljoin(base, href) for the hrefs of the model: empty, absolute
\* http(s), rooted at "/", or a plain relative path (no "..", no "./", no
\* leading "?" or "#", no empty query).
urljoin(base, href) ==
    IF href = <<>> THEN base
    ELSE IF HasScheme(href) THEN href
    ELSE IF href[1] = "/" THEN Origin(base) \o href
    ELSE Directory(base) \o href

\* The text main() matches the keywords against: the anchor's text, a space,
\* the raw href.
MatchText(a) == a.text \o <<" ">> \o a.href

\* The condition of main()'s scan loop.
IsCandidate(a) ==
    /\ is_pdf_link(urljoin(SEBI_URL, a.href))
    /\ likely_drhp_text(MatchText(a))

\* ------------------------------------------------------------- inputs

\* Hyperlinks of the pipeline specification: two links to one document (a
\* relative and a rooted href), a link to a second document, a link that is
\* no candidate.
LinkA1 == [text |-> <<"D", "R", "H", "P">>, href |-> <<"a", ".", "p", "d", "f">>]

LinkA2 ==
    [text |-> <<"D", "r", "a", "f", "t">>,
     href |-> <<"/", "f", "i", "l", "i", "n", "g", "s", "/", "a", ".", "p", "d", "f">>]

LinkB ==
    [text |-> <<>>,
     href |-> <<"h", "t", "t", "p", "s", ":", "/", "/", "x", ".", "i", "n", "/",
                "d", "r", "h", "p", "/", "b", ".", "p", "d", "f">>]

LinkAbout ==
    [text |-> <<"A", "b", "o", "u", "t">>,
     href |-> <<"a", "b", "o", "u", "t", ".", "h", "t", "m", "l">>]

MainLinks == {LinkA1, LinkA2, LinkB, LinkAbout}

UrlA == urljoin(SEBI_URL, LinkA1.href)

UrlB == urljoin(SEBI_URL, LinkB.href)

\* Hyperlinks of the link-selection specification, each with whether it has
\* the extension and whether it has a keyword, decided by hand.
SelMatrix ==
    { [a |-> LinkA1, ext |-> TRUE, kw |-> TRUE],
      [a |-> LinkA2, ext |-> TRUE, kw |-> TRUE],
      [a |-> LinkB, ext |-> TRUE, kw |-> TRUE],
      [a |-> LinkAbout, ext |-> FALSE, kw |-> FALSE],
      [a |-> [text |-> <<"A", "b", "r", "i", "d", "g", "e", "d">>,
              href |-> <<"X", ".", "P", "D", "F">>],
       ext |-> TRUE, kw |-> FALSE],
      [a |-> [text |-> <<"D", "r", "a", "f", "t">>,
              href |-> <<"d", ".", "h", "t", "m", "l">>],
       ext |-> FALSE, kw |-> TRUE],
      [a |-> [text |-> <<"R", "e", "d">>,
              href |-> <<"h", "e", "r", "r", "i", "n", "g", ".", "p", "d", "f">>],
       ext |-> TRUE, kw |-> TRUE],
      [a |-> [text |-> <<"O", "f", "f", "e", "r", " ", "D", "o", "c", "u", "m", "e", "n", "t">>,
              href |-> <<"d", "o", "c", ".", "P", "D", "F", "?", "i", "d", "=", "1">>],
       ext |-> TRUE, kw |-> TRUE],
      [a |-> [text |-> <<"N", "o", "t", "i", "c", "e">>,
              href |-> <<"n", ".", "p", "d", "f", "#", "d", "r", "a", "f", "t">>],
       ext |-> FALSE, kw |-> TRUE],
      [a |-> [text |-> <<"D", "R", "H", "P">>,
              href |-> <<"d", "r", "h", "p", ".", "p", "d", "f", "x">>],
       ext |-> FALSE, kw |-> TRUE],
      [a |-> [text |-> <<"A", "n", "n", "u", "a", "l">>,
              href |-> <<"/", "r", ".", "p", "d", "f">>],
       ext |-> TRUE, kw |-> FALSE],
      [a |-> [text |-> <<>>, href |-> <<>>], ext |-> FALSE, kw |-> FALSE] }

SelLinks == {m.a : m \in SelMatrix}

\* The pages of at most n hyperlinks drawn from links.
Pages(links, n) == UNION {[1..k -> links] : k \in 0..n}

\* The state file: absent, or present and then either malformed or a JSON
\* array of URLs.
NoFile == [exists |-> FALSE, valid |-> TRUE, urls |-> <<>>]

CorruptFile == [exists |-> TRUE, valid |-> FALSE, urls |-> <<>>]

JsonFile(urls) == [exists |-> TRUE, valid |-> TRUE, urls |-> urls]

InitFiles == {NoFile, CorruptFile, JsonFile(<<>>), JsonFile(<<UrlA>>)}

\* ------------------------------------------------------------- state

VARIABLES
    file,        \* STATE_FILE on disk
    page,        \* the hyperlinks of the listing page, as the server has them
    drive,       \* the Drive folder: the URLs whose file was uploaded, in order
    run,         \* which run of main() this is
    pc,          \* where main() is
    state,       \* main()'s state
    soup,        \* the hyperlinks main() parsed
    i,           \* the scan loop: links of soup seen so far
    candidates,  \* main()'s candidates
    j,           \* the archive loop: candidates done so far
    new_count,   \* main()'s new_count
    events,      \* this run's requests, uploads, sleeps and saves, in order
    outcome,     \* this run's result for each candidate done so far
    loaded,      \* what load_state returned in this run
    file0,       \* the state file when this run began
    changed,     \* the page changed since the previous run
    prevDone,    \* the previous run reached save_state
    prevFailed   \* the URLs whose download or upload failed in the previous run

vars ==
    <<file, page, drive, run, pc, state, soup, i, candidates, j, new_count,
      events, outcome, loaded, file0, changed, prevDone, prevFailed>>

world == <<file, page, drive>>

history == <<file0, changed, prevDone, prevFailed>>

ToSet(s) == {s[k] : k \in 1..Len(s)}

\* The orders in which a set can be written as a list.
Orders(S) ==
    {f \in [1..Cardinality(S) -> S] : \A x \in S : \E k \in 1..Cardinality(S) : f[k] = x}

Event(op, url, ok) == [op |-> op, url |-> url, ok |-> ok]

NoUrl == <<>>

InitRun ==
    /\ pc = "start"
    /\ state = {}
    /\ soup = <<>>
    /\ i = 0
    /\ candidates = <<>>
    /\ j = 0
    /\ new_count = 0
    /\ events = <<>>
    /\ outcome = <<>>
    /\ loaded = {}
    /\ file0 = file
    /\ changed = FALSE
    /\ prevDone = FALSE
    /\ prevFailed = {}

Init ==
    /\ file \in InitFiles
    /\ page \in Pages(MainLinks, MaxLinks)
    /\ drive = <<>>
    /\ run = 1
    /\ InitRun

InitSelect ==
    /\ file = NoFile
    /\ page \in Pages(SelLinks, MaxSelLinks)
    /\ drive = <<>>
    /\ run = 1
    /\ InitRun

\* ------------------------------------------------------------- main()

\* load_state as a bug would have it: the file is never read.
load_state_empty == {}

\* load_state() returns: the set of the array's elements, or the empty set
\* when there is no file.
load_state == IF file.exists THEN ToSet(file.urls) ELSE {}

LoadState ==
    /\ pc = "start"
    /\ ~file.exists \/ file.valid
    /\ state' = load_state
    /\ loaded' = load_state
    /\ pc' = "fetch"
    /\ UNCHANGED <<world, run, soup, i, candidates, j, new_count, events, outcome, history>>

\* json.load raises on a malformed file: main() ends there.
LoadStateFail ==
    /\ pc = "start"
    /\ file.exists /\ ~file.valid
    /\ pc' = "aborted"
    /\ UNCHANGED <<world, run, state, soup, i, candidates, j, new_count, events,
                   outcome, loaded, history>>

\* requests.get(SEBI_URL) answers and raise_for_status passes: the page is parsed.
FetchListingOk ==
    /\ pc = "fetch"
    /\ events' = Append(events, Event("get_listing", NoUrl, TRUE))
    /\ soup' = page
    /\ candidates' = <<>>
    /\ i' = 0
    /\ pc' = "scan"
    /\ UNCHANGED <<world, run, state, j, new_count, outcome, loaded, history>>

\* The listing request as a bug would have it: its failure is taken as an
\* empty page and main() goes on.
FetchListingFailIgnored ==
    /\ pc = "fetch"
    /\ events' = Append(events, Event("get_listing", NoUrl, FALSE))
    /\ soup' = <<>>
    /\ candidates' = <<>>
    /\ i' = 0
    /\ pc' = "scan"
    /\ UNCHANGED <<world, run, state, j, new_count, outcome, loaded, history>>

\* requests.get raises, or raise_for_status does: main() ends there.
FetchListingFail ==
    /\ pc = "fetch"
    /\ events' = Append(events, Event("get_listing", NoUrl, FALSE))
    /\ pc' = "aborted"
    /\ UNCHANGED <<world, run, state, soup, i, candidates, j, new_count, outcome,
                   loaded, history>>

\* One pass of `for a in soup.find_all("a", href=True)`.
ScanLink ==
    /\ pc = "scan"
    /\ i < Len(soup)
    /\ i' = i + 1
    /\ candidates' =
           IF IsCandidate(soup[i + 1])
           THEN Append(candidates, urljoin(SEBI_URL, soup[i + 1].href))
           ELSE candidates
    /\ UNCHANGED <<world, run, pc, state, soup, j, new_count, events, outcome,
                   loaded, history>>

\* get_drive() returns a client: the archive loop begins.
GetDriveOk ==
    /\ pc = "scan"
    /\ i = Len(soup)
    /\ events' = Append(events, Event("get_drive", NoUrl, TRUE))
    /\ new_count' = 0
    /\ j' = 0
    /\ pc' = "loop"
    /\ UNCHANGED <<world, run, state, soup, i, candidates, outcome, loaded, history>>

\* from_json_keyfile_name raises (the key file is missing or invalid): main()
\* ends there.
GetDriveFail ==
    /\ pc = "scan"
    /\ i = Len(soup)
    /\ events' = Append(events, Event("get_drive", NoUrl, FALSE))
    /\ pc' = "aborted"
    /\ UNCHANGED <<world, run, state, soup, i, candidates, j, new_count, outcome,
                   loaded, history>>

\* `url in state` as a bug would have it: nothing is ever taken as seen.
SeenNever(url) == FALSE

\* `url in state`
Seen(url) == url \in state

\* `if url in state: continue`
SkipCandidate ==
    /\ pc = "loop"
    /\ j < Len(candidates)
    /\ Seen(candidates[j + 1])
    /\ j' = j + 1
    /\ outcome' = Append(outcome, "skipped")
    /\ UNCHANGED <<world, run, pc, state, soup, i, candidates, new_count, events,
                   loaded, history>>

\* download_file(url, path) returns.
DownloadOk ==
    /\ pc = "loop"
    /\ j < Len(candidates)
    /\ ~Seen(candidates[j + 1])
    /\ events' = Append(events, Event("download", candidates[j + 1], TRUE))
    /\ pc' = "upload"
    /\ UNCHANGED <<world, run, state, soup, i, candidates, j, new_count, outcome,
                   loaded, history>>

\* download_file as a bug would have it: its exception leaves main().
DownloadFailUncaught ==
    /\ pc = "loop"
    /\ j < Len(candidates)
    /\ ~Seen(candidates[j + 1])
    /\ events' = Append(events, Event("download", candidates[j + 1], FALSE))
    /\ outcome' = Append(outcome, "download_failed")
    /\ pc' = "aborted"
    /\ UNCHANGED <<world, run, state, soup, i, candidates, j, new_count, loaded, history>>

\* download_file as a bug would have it: the same candidate is tried again.
DownloadFailRetry ==
    /\ pc = "loop"
    /\ j < Len(candidates)
    /\ ~Seen(candidates[j + 1])
    /\ events' = Append(events, Event("download", candidates[j + 1], FALSE))
    /\ UNCHANGED <<world, run, pc, state, soup, i, candidates, j, new_count, outcome,
                   loaded, history>>

\* download_file(url, path) raises: the except clause prints and the loop
\* goes on to the next candidate.
DownloadFail ==
    /\ pc = "loop"
    /\ j < Len(candidates)
    /\ ~Seen(candidates[j + 1])
    /\ events' = Append(events, Event("download", candidates[j + 1], FALSE))
    /\ outcome' = Append(outcome, "download_failed")
    /\ j' = j + 1
    /\ UNCHANGED <<world, run, pc, state, soup, i, candidates, new_count, loaded, history>>

\* upload_to_drive as a bug would have it: the counter is not advanced.
UploadOkNoCount ==
    /\ pc = "upload"
    /\ events' = events \o <<Event("upload", candidates[j + 1], TRUE),
                             Event("sleep", NoUrl, TRUE)>>
    /\ drive' = Append(drive, candidates[j + 1])
    /\ state' = state \cup {candidates[j + 1]}
    /\ outcome' = Append(outcome, "archived")
    /\ j' = j + 1
    /\ pc' = "loop"
    /\ UNCHANGED <<file, page, run, soup, i, candidates, new_count, loaded, history>>

\* upload_to_drive(drive, path, fname) returns; then state.add(url),
\* new_count += 1 and time.sleep(1).
UploadOk ==
    /\ pc = "upload"
    /\ events' = events \o <<Event("upload", candidates[j + 1], TRUE),
                             Event("sleep", NoUrl, TRUE)>>
    /\ drive' = Append(drive, candidates[j + 1])
    /\ state' = state \cup {candidates[j + 1]}
    /\ new_count' = new_count + 1
    /\ outcome' = Append(outcome, "archived")
    /\ j' = j + 1
    /\ pc' = "loop"
    /\ UNCHANGED <<file, page, run, soup, i, candidates, loaded, history>>

\* upload_to_drive raises: the except clause prints and the loop goes on to
\* the next candidate.
UploadFail ==
    /\ pc = "upload"
    /\ events' = Append(events, Event("upload", candidates[j + 1], FALSE))
    /\ outcome' = Append(outcome, "upload_failed")
    /\ j' = j + 1
    /\ pc' = "loop"
    /\ UNCHANGED <<world, run, state, soup, i, candidates, new_count, loaded, history>>

\* save_state as a bug would have it: only this run's URLs are written.
SavedNew(st) == {JsonFile(o) : o \in Orders(st \ loaded)}

\* What save_state(st) can leave on disk: the set as a list, in some order.
Saved(st) == {JsonFile(o) : o \in Orders(st)}

\* save_state(state), then the summary line.
SaveState ==
    /\ pc = "loop"
    /\ j = Len(candidates)
    /\ file' \in Saved(state)
    /\ events' = Append(events, Event("save_state", NoUrl, TRUE))
    /\ pc' = "done"
    /\ UNCHANGED <<page, drive, run, state, soup, i, candidates, j, new_count,
                   outcome, loaded, history>>

\* ------------------------------------------------------------- between runs

Failures == {"download_failed", "upload_failed"}

\* The process has ended; main() is started again.
NextRun ==
    /\ pc \in {"done", "aborted"}
    /\ run < MaxRuns
    /\ run' = run + 1
    /\ pc' = "start"
    /\ state' = {}
    /\ soup' = <<>>
    /\ i' = 0
    /\ candidates' = <<>>
    /\ j' = 0
    /\ new_count' = 0
    /\ events' = <<>>
    /\ outcome' = <<>>
    /\ loaded' = {}
    /\ file0' = file
    /\ changed' = FALSE
    /\ prevDone' = (pc = "done")
    /\ prevFailed' = {candidates[k] : k \in {n \in 1..Len(outcome) : outcome[n] \in Failures}}
    /\ UNCHANGED world

\* The site publishes another listing page between two runs.
ChangePage ==
    /\ pc = "start"
    /\ run > 1
    /\ ~changed
    /\ page' \in Pages(MainLinks, MaxLinks) \ {page}
    /\ changed' = TRUE
    /\ UNCHANGED <<file, drive, run, pc, state, soup, i, candidates, j, new_count,
                   events, outcome, loaded, file0, prevDone, prevFailed>>

Next ==
    \/ LoadState
    \/ LoadStateFail
    \/ FetchListingOk
    \/ FetchListingFail
    \/ ScanLink
    \/ GetDriveOk
    \/ GetDriveFail
    \/ SkipCandidate
    \/ DownloadOk
    \/ DownloadFail
    \/ UploadOk
    \/ UploadFail
    \/ SaveState
    \/ NextRun
    \/ ChangePage

Spec == Init /\ [][Next]_vars

NextSelect == LoadState \/ FetchListingOk \/ ScanLink

SpecSelect == InitSelect /\ [][NextSelect]_vars

\* ------------------------------------------------------------- properties

\* The positions of this run's events of one kind.
Ev(op) == {k \in 1..Len(events) : events[k].op = op}

Transfers == Ev("download") \cup Ev("upload")

\* The candidates whose download or upload failed in this run.
Failed == {k \in 1..Len(outcome) : outcome[k] \in Failures}

\* The URLs archived in this run so far.
Archived == {candidates[k] : k \in {n \in 1..Len(outcome) : outcome[n] = "archived"}}

\* The candidates main() has begun: those done, and the one being uploaded.
Begun == IF pc = "upload" THEN j + 1 ELSE j

LoopStep ==
    SkipCandidate \/ DownloadOk \/ DownloadFail \/ UploadOk \/ UploadFail \/ SaveState

\* C1. Failure isolation: once the download or the upload of a candidate has
\* failed, the run is not ended by it: the loop can always take its next step
\* until save_state; at the end every candidate has been done, each one after
\* the failed one skipped exactly when its URL was in the Processed-Set by
\* then and otherwise attempted, each archived one is in the saved set, and
\* the failed one is in the set only if a later candidate with the same URL
\* was archived.
FailureIsolation ==
    \A k \in Failed :
        /\ pc \in {"loop", "upload", "done"}
        /\ pc # "done" => ENABLED LoopStep
        /\ candidates[k] \notin loaded
        /\ candidates[k] \in state =>
               \E m \in (k + 1)..Len(outcome) :
                   candidates[m] = candidates[k] /\ outcome[m] = "archived"
        /\ \A m \in (k + 1)..Len(outcome) :
               outcome[m] = "skipped" <=>
                   \/ candidates[m] \in loaded
                   \/ \E n \in 1..(m - 1) :
                          candidates[n] = candidates[m] /\ outcome[n] = "archived"
        /\ pc = "done" =>
               /\ Len(outcome) = Len(candidates)
               /\ events[Len(events)].op = "save_state"
               /\ Cardinality(Ev("download")) =
                      Cardinality({m \in 1..Len(outcome) : outcome[m] # "skipped"})
               /\ \A m \in 1..Len(outcome) :
                      outcome[m] = "archived" => candidates[m] \in ToSet(file.urls)

\* The listing [A, B]: the download of A failed, B was archived and saved.
FailureIsolationWitness ==
    /\ pc = "done"
    /\ candidates = <<UrlA, UrlB>>
    /\ outcome = <<"download_failed", "archived">>
    /\ UrlB \in ToSet(file.urls)
    /\ UrlA \notin ToSet(file.urls)

\* C2. Skip behaviour: no URL of the set loaded at the start of the run is
\* downloaded or uploaded in that run; every candidate with such a URL is
\* skipped; the URLs added to the set are URLs uploaded in the run, none of
\* them loaded; and the saved set is the loaded set and the archived URLs.
SkipProcessed ==
    /\ \A k \in Transfers : events[k].url \notin loaded
    /\ \A k \in 1..Len(outcome) : candidates[k] \in loaded => outcome[k] = "skipped"
    /\ pc \in {"loop", "upload", "done"} =>
           state \ loaded = {events[k].url : k \in {n \in Ev("upload") : events[n].ok}}
    /\ pc = "done" => ToSet(file.urls) = loaded \cup Archived

\* The loaded set {A} and the listing [A, B]: only B was transferred, and the
\* saved set is {A, B}.
SkipProcessedWitness ==
    /\ pc = "done"
    /\ loaded = {UrlA}
    /\ candidates = <<UrlA, UrlB>>
    /\ {events[k].url : k \in Transfers} = {UrlB}
    /\ ToSet(file.urls) = {UrlA, UrlB}

\* A run that follows a completed run, with the listing page as it was.
SecondRunSamePage == run >= 2 /\ prevDone /\ ~changed

\* C3 as claimed. Idempotence: a second run against the unchanged listing
\* page, loading what the first run saved, makes no download and counts 0.
SecondRunDownloadsNothing ==
    SecondRunSamePage /\ pc = "done" => Ev("download") = {} /\ new_count = 0

\* C3 as amended. A second run against the unchanged listing page, loading
\* what the first run saved, downloads only URLs whose download or upload
\* failed in the first run; when none failed it makes no download and
\* counts 0.
SecondRunDownloadsOnlyFailed ==
    SecondRunSamePage =>
        /\ \A k \in Ev("download") : events[k].url \in prevFailed
        /\ new_count <= Cardinality(prevFailed)
        /\ prevFailed = {} => Ev("download") = {} /\ new_count = 0

\* The first run archived a document; the second run, on the same page, has
\* skipped every candidate and saved.
SecondRunWitness ==
    /\ SecondRunSamePage
    /\ pc = "done"
    /\ prevFailed = {}
    /\ drive # <<>>
    /\ outcome # <<>>
    /\ \A k \in 1..Len(outcome) : outcome[k] = "skipped"
    /\ new_count = 0

\* C4. A failed listing request ends the run: no download, no upload and no
\* save_state, nothing further is done in the run, and the state file is
\* what it was when the run began.
DiscoveryFailureFatal ==
    (\E k \in Ev("get_listing") : ~events[k].ok) =>
        /\ pc = "aborted"
        /\ events = <<Event("get_listing", NoUrl, FALSE)>>
        /\ file = file0
        /\ state = loaded
        /\ ~ENABLED (Next /\ run' = run)

\* The listing request failed with a state file on disk, which is as it was.
DiscoveryFailureWitness ==
    /\ pc = "aborted"
    /\ events = <<Event("get_listing", NoUrl, FALSE)>>
    /\ file0 = JsonFile(<<UrlA>>)
    /\ file = file0

\* C5 as claimed. When get_drive raises, nothing has been requested before:
\* not the listing page, no download, no upload.
ConfigErrorBeforeAnyWork ==
    \A k \in Ev("get_drive") :
        ~events[k].ok =>
            \A m \in 1..(k - 1) : events[m].op \notin {"get_listing", "download", "upload"}

\* C6 as claimed. Between any two successive download requests of a run there
\* is a sleep.
DelayBetweenDownloads ==
    \A p, q \in Ev("download") :
        p < q => \E m \in (p + 1)..(q - 1) : events[m].op = "sleep"

\* C7. The count reported is the number of URLs added to the Processed-Set
\* in the run: new_count is the size of (state minus loaded) throughout the
\* loop, and of (saved set minus loaded set) at the end.
NewCountIsAdded ==
    /\ pc \in {"loop", "upload", "done"} => new_count = Cardinality(state \ loaded)
    /\ pc = "done" => new_count = Cardinality(ToSet(file.urls) \ loaded)

\* A listing with the same URL twice: archived the first time, skipped the
\* second, counted once.
NewCountWitness ==
    /\ pc = "done"
    /\ candidates = <<UrlA, UrlA>>
    /\ outcome = <<"archived", "skipped">>
    /\ new_count = 1

\* The claim's extension test: the resolved URL, lowercased, ends with ".pdf"
\* or contains ".pdf?".
HasExtension(a) ==
    LET u == Lower(urljoin(SEBI_URL, a.href))
    IN  EndsWith(u, <<".", "p", "d", "f">>) \/ Contains(u, <<".", "p", "d", "f", "?">>)

\* The claim's keyword test: the text with the raw href, lowercased, contains
\* a keyword.
HasKeyword(a) == \E w \in KEYWORDS : Contains(Lower(a.text \o <<" ">> \o a.href), w)

\* The links among the first n of the page that pass both tests.
Selected(n) == {k \in 1..n : HasExtension(soup[k]) /\ HasKeyword(soup[k])}

\* The links among the first n of the page that the hand-made matrix has with
\* both the extension and a keyword.
SelectedByMatrix(n) ==
    {k \in 1..n : \E m \in SelMatrix : m.a = soup[k] /\ m.ext /\ m.kw}

\* C8. Candidate selection: the candidates are the resolved URLs of exactly
\* the links scanned so far that pass both the extension test and the keyword
\* test, in page order and with repetitions kept; of the matrix (extension,
\* keyword) only the (true, true) links are in.
CandidateSelection ==
    /\ Len(candidates) = Cardinality(Selected(i))
    /\ \A k \in Selected(i) :
           candidates[Cardinality(Selected(k))] = urljoin(SEBI_URL, soup[k].href)
    /\ Selected(i) = SelectedByMatrix(i)

\* A page scanned to its end with a link that passes both tests, a link
\* with the extension (in capitals) and no keyword, and hence one candidate.
CandidateSelectionWitness ==
    /\ pc = "scan"
    /\ i = Len(soup)
    /\ Len(candidates) = 1
    /\ \E k \in 1..i : HasExtension(soup[k]) /\ ~HasKeyword(soup[k])
    /\ \E k \in 1..i : HasExtension(soup[k]) /\ HasKeyword(soup[k])

\* C9 as claimed. No URL has a download attempted more than once in a run.
NoUrlDownloadedTwice ==
    \A p, q \in Ev("download") : p < q => events[p].url # events[q].url

\* C9 as amended. No retry: each candidate of the listing has a download
\* attempted at most once, so a URL is downloaded at most as many times as it
\* occurs among the candidates begun, and never again once it has been
\* uploaded.
NoRetryOfCandidate ==
    /\ Cardinality(Ev("download")) =
           Cardinality({k \in 1..Len(outcome) : outcome[k] # "skipped"})
               + (IF pc = "upload" THEN 1 ELSE 0)
    /\ \A q \in Ev("download") :
           /\ Cardinality({p \in Ev("download") : events[p].url = events[q].url})
                  <= Cardinality({k \in 1..Begun : candidates[k] = events[q].url})
           /\ \A p \in 1..(q - 1) :
                  ~(events[p].op = "upload" /\ events[p].ok /\ events[p].url = events[q].url)

\* The same URL twice in the listing: its download failed the first time and
\* it was downloaded again, and archived, the second time.
NoRetryWitness ==
    /\ pc = "done"
    /\ candidates = <<UrlA, UrlA>>
    /\ outcome = <<"download_failed", "archived">>
    /\ Cardinality(Ev("download")) = 2

\* C10. At-most-once archiving: over the runs no URL is uploaded twice; at
\* the end of a run the saved set is the loaded set and the URLs whose
\* download and upload succeeded in the run; and the saved set holds every
\* URL the file held when the run began (until save_state the file is
\* untouched).
ArchivedAtMostOnce ==
    /\ \A p, q \in 1..Len(drive) : p < q => drive[p] # drive[q]
    /\ pc = "done" =>
           /\ ToSet(file.urls) = loaded \cup Archived
           /\ ToSet(file0.urls) \subseteq ToSet(file.urls)
    /\ pc # "done" => file = file0

\* Two runs: the first archived a document, the second skipped it and
\* archived another; the folder holds each once.
ArchivedAtMostOnceWitness ==
    /\ run = 2
    /\ pc = "done"
    /\ Len(drive) = 2
    /\ \E k \in 1..Len(outcome) : outcome[k] = "skipped" /\ candidates[k] = drive[1]
    /\ \E k \in 1..Len(outcome) : outcome[k] = "archived" /\ candidates[k] = drive[2]

====
